---- MODULE Spec2Model ----
(***************************************************************************)
(* State-machine model of kajiya's WorldRenderer                           *)
(* (crates/lib/kajiya/src/world_renderer.rs): the mesh registry, the       *)
(* instance table, the top-level acceleration structure and the per-frame  *)
(* temporal state.                                                         *)
(*                                                                         *)
(* Conventions.                                                            *)
(*  - Vec3 is a triple of integers, Quat is <<x, y, z, w>>, Mat3 is a      *)
(*    triple of columns.  Only quaternions with integer components are     *)
(*    drawn, so Mat3::from_quat is computed exactly.                       *)
(*  - A Vec2 jitter offset <<a, b>> stands for (a / 64, b / 54) : the      *)
(*    radical inverses in base 2 and 3 of 1..16 are exact in those units.  *)
(*  - A u32 is the pair of its 16-bit halves.                             *)
(*  - A panic ends the program: it is recorded in `fault` and no operation *)
(*    is enabled afterwards.                                               *)
(*  - The render graph a prepare_* call records into is `rg`; a recorded    *)
(*    pass runs when the graph is executed.                                *)
(*  - `call` is the most recent call: its name, its arguments and what it  *)
(*    returned or wrote through its &mut arguments.                        *)
(***************************************************************************)
EXTENDS Integers, Sequences, FiniteSets, TLC

VARIABLES
    meshes,                     \* Vec<UploadedTriMesh>
    mesh_blas,                  \* Vec<Arc<RayTracingAcceleration>>
    mesh_buffer,                \* the GpuMesh slots written, by slot
    vertex_buffer,              \* the chunks uploaded to the shared buffer
    vertex_buffer_written,      \* u64
    bindless_descriptors,       \* binding 2 of the descriptor set, by array element
    bindless_images,            \* Vec<Arc<Image>>
    next_bindless_image_id,     \* usize
    image_luts,                 \* Vec<ImageLut>
    loads,                      \* the parallel texture loads of the latest add_mesh
    instances,                  \* Vec<MeshInstance>
    instance_handles,           \* Vec<InstanceHandle>
    instance_handle_to_index,   \* HashMap<InstanceHandle, usize>
    next_instance_handle,       \* usize
    tlas,                       \* Option<Arc<RayTracingAcceleration>>
    rg,                         \* the passes recorded in the render graph, not yet run
    frame_idx,                  \* u32
    prev_camera_matrices,       \* Option<CameraMatrices>
    current_supersample_offset, \* taa.current_supersample_offset
    render_mode,                \* RenderMode
    call,                       \* the most recent call
    fault                       \* the panic that ended the program, if any

vars == <<meshes, mesh_blas, mesh_buffer, vertex_buffer, vertex_buffer_written,
          bindless_descriptors, bindless_images, next_bindless_image_id, image_luts,
          loads, instances, instance_handles, instance_handle_to_index,
          next_instance_handle, tlas, rg, frame_idx, prev_camera_matrices,
          current_supersample_offset, render_mode, call, fault>>

bindlessVars == <<bindless_descriptors, bindless_images, next_bindless_image_id,
                  image_luts>>
meshVars  == <<meshes, mesh_blas, mesh_buffer, vertex_buffer, vertex_buffer_written,
               bindlessVars, loads>>
tableVars == <<instances, instance_handles, instance_handle_to_index>>
accelVars == <<tlas, rg>>
frameVars == <<frame_idx, prev_camera_matrices, current_supersample_offset,
               render_mode>>

----------------------------------------------------------------------------
(* Bounds of the model: the calls the specifications below do not make *)

\* add_instance is not called once this many handles have been issued
MaxInstanceHandle == 3
\* add_mesh is not called once this many meshes are registered
MaxMeshes == 1
\* retire_frame is not called when frame_idx has this value
MaxFrameIdx == 2
\* the specifications of the top-level structure and of the frame counter do
\* not call add_instance once this many handles have been issued
MaxFewHandles == 2
\* build_ray_tracing_top_level_acceleration is not called once the structure
\* was created anew this many times
MaxRebuilt == 1
\* prepare_top_level_acceleration is not called while this many passes wait
\* in the render graph
MaxPasses == 1
\* the specification of the jitter cycle does not call retire_frame when
\* frame_idx has this value
MaxJitterFrame == 20
\* add_mesh is not called on a scene of this many meshes, unless the registry
\* is nearly full
MaxSceneMeshes == 3
\* add_image and add_image_lut are not called once this many images are
\* registered
MaxImages == 3
\* the specification of the parallel loads does not start add_mesh once this
\* many meshes are registered
MaxLoadedMeshes == 2
\* the threads of one add_mesh that are given a step
MaxTextures == 3

----------------------------------------------------------------------------
(* Values *)

None == "None"
NoFault == "none"

\* A u32 is <<hi, lo>>, its two 16-bit halves: the value is hi * 65536 + lo.
Half == 65536

U32(n) == <<n \div Half, n % Half>>

\* u32::overflowing_add(1).0
saturating_add_1(v) ==
    IF v[2] + 1 < Half THEN <<v[1], v[2] + 1>>
    ELSE IF v[1] + 1 < Half THEN <<v[1] + 1, 0>>
    ELSE v

overflowing_add_1(v) ==
    IF v[2] + 1 < Half THEN <<v[1], v[2] + 1>>
    ELSE IF v[1] + 1 < Half THEN <<v[1] + 1, 0>>
    ELSE <<0, 0>>

\* (v as usize) % m
U32Mod(v, m) == ((v[1] % m) * (Half % m) + (v[2] % m)) % m

\* An Option of a structured value is the sequence of that value, or empty
Some(x) == <<x>>
NoAccel == <<>>

\* No add_mesh has started texture loads yet
NoLoads == <<>>

Vec3Zero == <<0, 0, 0>>
Vec2Zero == <<0, 0>>

QuatIdentity == <<0, 0, 0, 1>>

\* glam Mat3::identity()
Mat3Identity == <<<<1, 0, 0>>, <<0, 1, 0>>, <<0, 0, 1>>>>

\* glam Mat3::from_quat(rotation), column by column
from_quat(q) ==
    LET x == q[1]  y == q[2]  z == q[3]  w == q[4]
        x2 == x + x  y2 == y + y  z2 == z + z
        xx == x * x2  xy == x * y2  xz == x * z2
        yy == y * y2  yz == y * z2  zz == z * z2
        wx == w * x2  wy == w * y2  wz == w * z2
    IN  << <<1 - (yy + zz), xy + wz, xz - wy>>,
           <<xy - wz, 1 - (xx + zz), yz + wx>>,
           <<xz + wy, yz - wx, 1 - (xx + yy)>> >>

\* InstanceDynamicParameters::default()
DefaultDynamicParameters == [emissive_multiplier |-> 1]

Call(op, args, ret) == [op |-> op, args |-> args, ret |-> ret]

----------------------------------------------------------------------------
(* Vec and HashMap helpers *)

\* Vec::swap_remove(index): the last element takes the place of the removed one
swap_remove_bad(s, index) ==
    [i \in 1..(Len(s) - 1) |-> IF i < index THEN s[i] ELSE s[i + 1]]

swap_remove(s, index) ==
    [i \in 1..(Len(s) - 1) |-> IF i = index THEN s[Len(s)] ELSE s[i]]

\* HashMap::remove(&key)
MapRemove_bad(m, k) == m

MapRemove(m, k) == [h \in (DOMAIN m) \ {k} |-> m[h]]

\* HashMap::insert(key, value)
MapInsert(m, k, v) == [h \in (DOMAIN m) \cup {k} |-> IF h = k THEN v ELSE m[h]]

----------------------------------------------------------------------------
(* State after WorldRenderer::new_empty.  TaaRenderer::new() is defined       *)
(* outside this file; its supersample offset starts at zero.                *)

Init ==
    /\ meshes = <<>>
    /\ mesh_blas = <<>>
    /\ mesh_buffer = <<>>
    /\ vertex_buffer = <<>>
    /\ vertex_buffer_written = 0
    /\ bindless_descriptors = <<>>
    /\ bindless_images = <<>>
    /\ next_bindless_image_id = 0
    /\ image_luts = <<>>
    /\ loads = NoLoads
    /\ instances = <<>>
    /\ instance_handles = <<>>
    /\ instance_handle_to_index = <<>>
    /\ next_instance_handle = 0
    /\ tlas = NoAccel
    /\ rg = <<>>
    /\ frame_idx = U32(0)
    /\ prev_camera_matrices = None
    /\ current_supersample_offset = Vec2Zero
    /\ render_mode = "Standard"
    /\ call = Call("new_empty", <<>>, None)
    /\ fault = NoFault

\* The renderer before its first prepare_frame_constants and
\* prepare_render_graph, at the start and after 2^32 - 2 frames without
\* instances were retired.
InitFrame ==
    /\ meshes = <<>>
    /\ mesh_blas = <<>>
    /\ mesh_buffer = <<>>
    /\ vertex_buffer = <<>>
    /\ vertex_buffer_written = 0
    /\ bindless_descriptors = <<>>
    /\ bindless_images = <<>>
    /\ next_bindless_image_id = 0
    /\ image_luts = <<>>
    /\ loads = NoLoads
    /\ instances = <<>>
    /\ instance_handles = <<>>
    /\ instance_handle_to_index = <<>>
    /\ next_instance_handle = 0
    /\ tlas = NoAccel
    /\ rg = <<>>
    /\ frame_idx \in {U32(0), <<Half - 1, Half - 2>>}
    /\ prev_camera_matrices = None
    /\ current_supersample_offset = Vec2Zero
    /\ render_mode = "Standard"
    /\ call = Call("new_empty", <<>>, None)
    /\ fault = NoFault

\* The renderer before its first prepare_render_graph, when f frames without
\* instances were retired
InitAfter(f) ==
    /\ meshes = <<>>
    /\ mesh_blas = <<>>
    /\ mesh_buffer = <<>>
    /\ vertex_buffer = <<>>
    /\ vertex_buffer_written = 0
    /\ bindless_descriptors = <<>>
    /\ bindless_images = <<>>
    /\ next_bindless_image_id = 0
    /\ image_luts = <<>>
    /\ loads = NoLoads
    /\ instances = <<>>
    /\ instance_handles = <<>>
    /\ instance_handle_to_index = <<>>
    /\ next_instance_handle = 0
    /\ tlas = NoAccel
    /\ rg = <<>>
    /\ frame_idx = f
    /\ prev_camera_matrices = None
    /\ current_supersample_offset = Vec2Zero
    /\ render_mode = "Standard"
    /\ call = Call("new_empty", <<>>, None)
    /\ fault = NoFault

\* At the start, and sixteen frames before the frame index wraps
InitJitter == \E f \in {U32(0), <<Half - 1, Half - 16>>} : InitAfter(f)

----------------------------------------------------------------------------
(* Instance table.  Storage slots are 0-based in the code and in            *)
(* instance_handle_to_index; the sequences of the model are 1-based, so     *)
(* slot i is element i + 1.                                                 *)

add_instance_reuse(mesh, position, rotation) ==
    LET handle == Len(instances)
        index  == Len(instances)
    IN  /\ fault = NoFault
        /\ next_instance_handle' = next_instance_handle + 1
        /\ instances' = Append(instances,
                [rotation           |-> from_quat(rotation),
                 position           |-> position,
                 prev_rotation      |-> Mat3Identity,
                 prev_position      |-> position,
                 mesh               |-> mesh,
                 dynamic_parameters |-> DefaultDynamicParameters])
        /\ instance_handles' = Append(instance_handles, handle)
        /\ instance_handle_to_index' = MapInsert(instance_handle_to_index, handle, index)
        /\ call' = Call("add_instance", <<mesh, position, rotation>>, handle)
        /\ UNCHANGED <<meshVars, accelVars, frameVars, fault>>

add_instance(mesh, position, rotation) ==
    LET handle == next_instance_handle
        index  == Len(instances)
    IN  /\ fault = NoFault
        /\ next_instance_handle' = next_instance_handle + 1
        /\ instances' = Append(instances,
                [rotation           |-> from_quat(rotation),
                 position           |-> position,
                 prev_rotation      |-> Mat3Identity,
                 prev_position      |-> position,
                 mesh               |-> mesh,
                 dynamic_parameters |-> DefaultDynamicParameters])
        /\ instance_handles' = Append(instance_handles, handle)
        /\ instance_handle_to_index' = MapInsert(instance_handle_to_index, handle, index)
        /\ call' = Call("add_instance", <<mesh, position, rotation>>, handle)
        /\ UNCHANGED <<meshVars, accelVars, frameVars, fault>>

\* if let Some(new_handle) = instance_handles.get(index) { map.insert(new_handle, index) }
repair_moved_bad(map, handles, index) == map

repair_moved(map, handles, index) ==
    IF index < Len(handles)
    THEN MapInsert(map, handles[index + 1], index)
    ELSE map

remove_instance(inst) ==
    /\ fault = NoFault
    /\ call' = Call("remove_instance", <<inst>>, None)
    /\ IF inst \notin DOMAIN instance_handle_to_index
       THEN /\ fault' = "no such instance"
            /\ UNCHANGED <<tableVars>>
       ELSE LET index   == instance_handle_to_index[inst]
                removed == MapRemove(instance_handle_to_index, inst)
                handles == swap_remove(instance_handles, index + 1)
            IN  /\ instances' = swap_remove(instances, index + 1)
                /\ instance_handles' = handles
                /\ instance_handle_to_index' = repair_moved(removed, handles, index)
                /\ UNCHANGED fault
    /\ UNCHANGED <<meshVars, next_instance_handle, accelVars, frameVars>>

set_instance_transform_teleport(inst, position, rotation) ==
    /\ fault = NoFault
    /\ call' = Call("set_instance_transform", <<inst, position, rotation>>, None)
    /\ IF inst \notin DOMAIN instance_handle_to_index
       THEN /\ fault' = "key not found"
            /\ UNCHANGED instances
       ELSE LET index == instance_handle_to_index[inst]
            IN  /\ instances' = [instances EXCEPT
                        ![index + 1].position = position,
                        ![index + 1].rotation = from_quat(rotation),
                        ![index + 1].prev_position = position,
                        ![index + 1].prev_rotation = from_quat(rotation)]
                /\ UNCHANGED fault
    /\ UNCHANGED <<meshVars, instance_handles, instance_handle_to_index,
                   next_instance_handle, accelVars, frameVars>>

set_instance_transform(inst, position, rotation) ==
    /\ fault = NoFault
    /\ call' = Call("set_instance_transform", <<inst, position, rotation>>, None)
    /\ IF inst \notin DOMAIN instance_handle_to_index
       THEN /\ fault' = "key not found"
            /\ UNCHANGED instances
       ELSE LET index == instance_handle_to_index[inst]
            IN  /\ instances' = [instances EXCEPT
                        ![index + 1].position = position,
                        ![index + 1].rotation = from_quat(rotation)]
                /\ UNCHANGED fault
    /\ UNCHANGED <<meshVars, instance_handles, instance_handle_to_index,
                   next_instance_handle, accelVars, frameVars>>

get_instance_dynamic_parameters_mut_lenient(inst, value) ==
    /\ fault = NoFault
    /\ call' = Call("get_instance_dynamic_parameters_mut", <<inst, value>>, None)
    /\ IF inst \notin DOMAIN instance_handle_to_index
       THEN UNCHANGED <<instances, fault>>
       ELSE LET index == instance_handle_to_index[inst]
            IN  /\ instances' = [instances EXCEPT
                        ![index + 1].dynamic_parameters.emissive_multiplier = value]
                /\ UNCHANGED fault
    /\ UNCHANGED <<meshVars, instance_handles, instance_handle_to_index,
                   next_instance_handle, accelVars, frameVars>>

\* The caller writes `value` through the returned &mut InstanceDynamicParameters.
get_instance_dynamic_parameters_mut(inst, value) ==
    /\ fault = NoFault
    /\ call' = Call("get_instance_dynamic_parameters_mut", <<inst, value>>, None)
    /\ IF inst \notin DOMAIN instance_handle_to_index
       THEN /\ fault' = "key not found"
            /\ UNCHANGED instances
       ELSE LET index == instance_handle_to_index[inst]
            IN  /\ instances' = [instances EXCEPT
                        ![index + 1].dynamic_parameters.emissive_multiplier = value]
                /\ UNCHANGED fault
    /\ UNCHANGED <<meshVars, instance_handles, instance_handle_to_index,
                   next_instance_handle, accelVars, frameVars>>

----------------------------------------------------------------------------
(* Bindless resource table *)

\* The bindless part of the renderer as one value, for the steps of a call
Bindless ==
    [next_bindless_image_id |-> next_bindless_image_id,
     bindless_descriptors   |-> bindless_descriptors,
     bindless_images        |-> bindless_images]

\* The number of array elements of binding 2.  create_bindless_descriptor_set,
\* which fixes it, is outside this file: the model takes a small table.
BindlessTableSize == 4

\* vkUpdateDescriptorSets with a dst_array_element outside the table is
\* undefined: the call returns, having written outside the table, or the
\* program is aborted in it.
UndefinedWrite == "undefined behaviour: descriptor write outside the table"

WriteOutcomes(handle) ==
    IF handle >= BindlessTableSize THEN {NoFault, UndefinedWrite} ELSE {NoFault}

\* image.view(device, &ImageViewDesc::default())
View(image) == [view_of |-> image]

\* fn add_bindless_image_view, on the bindless value b: the handle and b after
add_bindless_image_view_reuse(b, view) ==
    LET handle == Len(b.bindless_images)
    IN  [handle |-> handle,
         b      |-> [b EXCEPT
                       !.next_bindless_image_id = b.next_bindless_image_id + 1,
                       !.bindless_descriptors =
                           MapInsert(b.bindless_descriptors, handle, view)]]

add_bindless_image_view(b, view) ==
    LET handle == b.next_bindless_image_id
    IN  [handle |-> handle,
         b      |-> [b EXCEPT
                       !.next_bindless_image_id = b.next_bindless_image_id + 1,
                       !.bindless_descriptors =
                           MapInsert(b.bindless_descriptors, handle, view)]]

\* fn add_image, on the bindless value b
add_image_to(b, image) ==
    LET r == add_bindless_image_view(b, View(image))
    IN  [handle |-> r.handle,
         b      |-> [r.b EXCEPT !.bindless_images = Append(r.b.bindless_images, image)]]

add_image(image) ==
    LET r == add_image_to(Bindless, image)
    IN  /\ fault = NoFault
        /\ \E outcome \in WriteOutcomes(r.handle) :
              /\ fault' = outcome
              /\ next_bindless_image_id' = r.b.next_bindless_image_id
              /\ bindless_descriptors' =
                     IF outcome = NoFault THEN r.b.bindless_descriptors
                     ELSE bindless_descriptors
              /\ bindless_images' =
                     IF outcome = NoFault THEN r.b.bindless_images ELSE bindless_images
              /\ call' = Call("add_image", <<image>>,
                              IF outcome = NoFault THEN r.handle ELSE None)
        /\ UNCHANGED <<meshes, mesh_blas, mesh_buffer, vertex_buffer,
                       vertex_buffer_written, image_luts, loads, tableVars,
                       next_instance_handle, accelVars, frameVars>>

\* ImageLut::new(device, computer).backing_image()
LutImage(computer) == [lut_of |-> computer]

add_image_lut(computer, id) ==
    LET r == add_bindless_image_view(Bindless, View(LutImage(computer)))
    IN  /\ fault = NoFault
        /\ image_luts' = Append(image_luts, computer)
        /\ next_bindless_image_id' = r.b.next_bindless_image_id
        /\ \E outcome \in WriteOutcomes(r.handle) :
              /\ bindless_descriptors' =
                     IF outcome = NoFault THEN r.b.bindless_descriptors
                     ELSE bindless_descriptors
              /\ fault' = IF outcome # NoFault THEN outcome
                          ELSE IF r.handle = id THEN NoFault
                          ELSE "assertion failed: handle == id"
        /\ call' = Call("add_image_lut", <<computer, id>>, None)
        /\ UNCHANGED <<meshes, mesh_blas, mesh_buffer, vertex_buffer,
                       vertex_buffer_written, bindless_images, loads, tableVars,
                       next_instance_handle, accelVars, frameVars>>

----------------------------------------------------------------------------
(* Mesh registry *)

MAX_GPU_MESHES == 1024
VERTEX_BUFFER_CAPACITY == 536870912

\* Vec::sort, by insertion
RECURSIVE InsertSorted(_, _)
InsertSorted(s, x) ==
    IF s = <<>> THEN <<x>>
    ELSE IF x <= Head(s) THEN <<x>> \o s
    ELSE <<Head(s)>> \o InsertSorted(Tail(s), x)

RECURSIVE sort(_)
sort(s) == IF s = <<>> THEN <<>> ELSE InsertSorted(sort(Tail(s)), Head(s))

\* Vec::dedup: consecutive repeats are dropped
dedup_none(s) == s

RECURSIVE dedup(_)
dedup(s) ==
    IF Len(s) < 2 THEN s
    ELSE IF s[1] = s[2] THEN dedup(Tail(s))
    ELSE <<s[1]>> \o dedup(Tail(s))

\* fn load_gpu_image_asset: the image baked for the asset
load_gpu_image_asset(asset) == [asset |-> asset]

\* loaded_images.into_iter().map(|img| self.add_image(img)), collected: the
\* images are registered one after the other, in their order
RECURSIVE add_images(_, _)
add_images(b, images) ==
    IF images = <<>> THEN [handles |-> <<>>, b |-> b]
    ELSE LET first == add_image_to(b, Head(images))
             rest  == add_images(first.b, Tail(images))
         IN  [handles |-> <<first.handle>> \o rest.handles, b |-> rest.b]

\* BufferBuilder::append on a builder whose current_offset is `offset`: the
\* chunk starts at the next multiple of its alignment
BufferBuilderAppend(offset, chunk) ==
    LET data_start == ((offset + chunk.align - 1) \div chunk.align) * chunk.align
    IN  [data_start |-> data_start, current_offset |-> data_start + chunk.bytes]

\* The seven appends of add_mesh, in order: the starts and the total size
AppendAll_restart(offset, chunks) ==
    [starts |-> [i \in 1..Len(chunks) |-> BufferBuilderAppend(0, chunks[i]).data_start],
     current_offset |-> IF chunks = <<>> THEN offset
                        ELSE BufferBuilderAppend(0, chunks[Len(chunks)]).current_offset]

RECURSIVE AppendAll(_, _)
AppendAll(offset, chunks) ==
    IF chunks = <<>> THEN [starts |-> <<>>, current_offset |-> offset]
    ELSE LET a    == BufferBuilderAppend(offset, Head(chunks))
             rest == AppendAll(a.current_offset, Tail(chunks))
         IN  [starts |-> <<a.data_start>> \o rest.starts,
              current_offset |-> rest.current_offset]

\* mesh_buffer_dst[mesh_idx]: the bounds check of indexing a slice of `len`
slice_index_ok_bad(index, len) == index <= len

slice_index_ok(index, len) == index < len

SeqMax(s) == CHOOSE m \in {s[i] : i \in 1..Len(s)} : \A i \in 1..Len(s) : s[i] <= m

\* The offsets stay below 2^31, so the casts to u32 keep them.  The upload
\* beyond the buffer's capacity fails as the packer's contract says; the
\* packer's code is outside this file.
add_mesh_with(mesh, unique_images, loaded_images) ==
    LET mesh_idx      == Len(meshes)
        registered    == add_images(Bindless, loaded_images)
        material_map_to_image ==
            [a \in {unique_images[i] : i \in 1..Len(unique_images)} |->
                registered.handles[CHOOSE i \in 1..Len(unique_images) :
                                       unique_images[i] = a]]
        mesh_map_gpu_ids ==
            [j \in 1..Len(mesh.maps) |-> material_map_to_image[mesh.maps[j]]]
        maps_in_range ==
            \A k \in 1..Len(mesh.materials) :
                \A j \in 1..Len(mesh.materials[k].maps) :
                    mesh.materials[k].maps[j] < Len(mesh.maps)
        materials ==
            [k \in 1..Len(mesh.materials) |->
                [mesh.materials[k] EXCEPT !.maps =
                    [j \in 1..Len(mesh.materials[k].maps) |->
                        mesh_map_gpu_ids[mesh.materials[k].maps[j] + 1]]]]
        vertex_data_offset == vertex_buffer_written
        packed == AppendAll(0, <<mesh.indices_chunk, mesh.verts, mesh.uvs,
                                 mesh.material_ids, mesh.colors, mesh.tangents,
                                 mesh.materials_chunk>>)
        vertex_index_offset   == packed.starts[1] + vertex_data_offset
        vertex_core_offset    == packed.starts[2] + vertex_data_offset
        vertex_uv_offset      == packed.starts[3] + vertex_data_offset
        vertex_mat_offset     == packed.starts[4] + vertex_data_offset
        vertex_aux_offset     == packed.starts[5] + vertex_data_offset
        vertex_tangent_offset == packed.starts[6] + vertex_data_offset
        mat_data_offset       == packed.starts[7] + vertex_data_offset
        total_buffer_size     == packed.current_offset
        uploaded == Append(vertex_buffer,
                        [offset    |-> vertex_buffer_written,
                         size      |-> total_buffer_size,
                         materials |-> materials])
        blas == [vertex_buffer |-> vertex_core_offset,
                 index_buffer  |-> vertex_index_offset,
                 index_count   |-> Len(mesh.indices),
                 max_vertex    |-> SeqMax(mesh.indices)]
        outcome ==
            IF ~maps_in_range THEN "index out of bounds: material map"
            ELSE IF vertex_buffer_written + total_buffer_size > VERTEX_BUFFER_CAPACITY
            THEN "upload: buffer capacity exceeded"
            ELSE IF mesh.indices = <<>> THEN "mesh must not be empty"
            ELSE IF ~slice_index_ok(mesh_idx, MAX_GPU_MESHES)
            THEN "index out of bounds: mesh_buffer"
            ELSE NoFault
        \* how far the call got
        rewritten == outcome # "index out of bounds: material map"
        written   == rewritten /\ outcome # "upload: buffer capacity exceeded"
        done      == outcome = NoFault
        \* the registrations made before the program is aborted in a
        \* descriptor write outside the table, or all of them
        stops == {n \in 0..Len(loaded_images) :
                     \/ n = Len(loaded_images)
                     \/ UndefinedWrite \in WriteOutcomes(next_bindless_image_id + n)}
    IN  /\ fault = NoFault
        /\ \E stop \in stops :
             IF stop < Len(loaded_images)
             THEN LET some == add_images(Bindless, SubSeq(loaded_images, 1, stop))
                  IN  /\ fault' = UndefinedWrite
                      /\ next_bindless_image_id' = some.b.next_bindless_image_id + 1
                      /\ bindless_descriptors' = some.b.bindless_descriptors
                      /\ bindless_images' = some.b.bindless_images
                      /\ call' = Call("add_mesh", <<mesh>>, None)
                      /\ UNCHANGED <<meshes, mesh_blas, mesh_buffer, vertex_buffer,
                                     vertex_buffer_written>>
             ELSE
                   /\ fault' = outcome
                   /\ next_bindless_image_id' = registered.b.next_bindless_image_id
                   /\ bindless_descriptors' = registered.b.bindless_descriptors
                   /\ bindless_images' = registered.b.bindless_images
                   /\ vertex_buffer' = IF written THEN uploaded ELSE vertex_buffer
                   /\ vertex_buffer_written' =
                          IF written THEN vertex_buffer_written + total_buffer_size
                          ELSE vertex_buffer_written
                   /\ mesh_buffer' =
                          IF done
                          THEN MapInsert(mesh_buffer, mesh_idx,
                                   [vertex_core_offset    |-> vertex_core_offset,
                                    vertex_uv_offset      |-> vertex_uv_offset,
                                    vertex_mat_offset     |-> vertex_mat_offset,
                                    vertex_aux_offset     |-> vertex_aux_offset,
                                    vertex_tangent_offset |-> vertex_tangent_offset,
                                    mat_data_offset       |-> mat_data_offset,
                                    index_offset          |-> vertex_index_offset])
                          ELSE mesh_buffer
                   /\ meshes' =
                          IF done
                          THEN Append(meshes, [index_buffer_offset |-> vertex_index_offset,
                                               index_count         |-> Len(mesh.indices)])
                          ELSE meshes
                   /\ mesh_blas' = IF done THEN Append(mesh_blas, blas) ELSE mesh_blas
                   /\ call' = Call("add_mesh", <<mesh>>, IF done THEN mesh_idx ELSE None)
        /\ UNCHANGED <<image_luts, tableVars, next_instance_handle, accelVars, frameVars>>

\* add_mesh as one step, for the callers that do not look into it: the
\* images loaded, in the order of the unique identities
add_mesh(mesh) ==
    LET unique_images == dedup(sort(mesh.maps))
        loaded_images == [i \in 1..Len(unique_images) |->
                              load_gpu_image_asset(unique_images[i])]
    IN  /\ add_mesh_with(mesh, unique_images, loaded_images)
        /\ UNCHANGED loads

\* An add_mesh is inside Parallel::run
in_parallel_region == IF loads = NoLoads THEN FALSE ELSE ~loads[1].joined

\* add_mesh up to Parallel::run: the identities are sorted and deduplicated
\* and one thread per unique identity is started.  `slots` holds what each
\* thread returned, `finished` the threads in the order they finished,
\* `joined` tells that Parallel::run has returned.
add_mesh_fork(mesh) ==
    LET unique_images == dedup(sort(mesh.maps))
    IN  /\ fault = NoFault
        /\ ~in_parallel_region
        /\ loads' = Some([mesh          |-> mesh,
                          unique_images |-> unique_images,
                          slots         |-> [i \in 1..Len(unique_images) |-> <<>>],
                          finished      |-> <<>>,
                          joined        |-> FALSE])
        /\ UNCHANGED <<meshes, mesh_blas, mesh_buffer, vertex_buffer,
                       vertex_buffer_written, bindlessVars, tableVars,
                       next_instance_handle, accelVars, frameVars, call, fault>>

\* The thread of the i-th closure returns: load_gpu_image_asset(device, asset)
load_thread(i) ==
    /\ fault = NoFault
    /\ in_parallel_region
    /\ i \in 1..Len(loads[1].slots)
    /\ loads[1].slots[i] = <<>>
    /\ loads' = Some([loads[1] EXCEPT
                        !.slots[i] = Some(load_gpu_image_asset(loads[1].unique_images[i])),
                        !.finished = Append(@, i)])
    /\ UNCHANGED <<meshes, mesh_blas, mesh_buffer, vertex_buffer,
                   vertex_buffer_written, bindlessVars, tableVars,
                   next_instance_handle, accelVars, frameVars, call, fault>>

\* Every thread of the parallel region l has returned
all_joined(l) == \A i \in 1..Len(l.slots) : l.slots[i] # <<>>

\* Parallel::run, had it collected the results as the threads finish
Parallel_run_unordered(l) ==
    [k \in 1..Len(l.finished) |-> l.slots[l.finished[k]][1]]

\* Parallel::run (easy_parallel): every thread is joined, then the results
\* are collected in the order the closures were added
Parallel_run(l) == [i \in 1..Len(l.slots) |-> l.slots[i][1]]

\* add_mesh from the return of Parallel::run to its own
add_mesh_join ==
    /\ in_parallel_region
    /\ all_joined(loads[1])
    /\ add_mesh_with(loads[1].mesh, loads[1].unique_images, Parallel_run(loads[1]))
    /\ loads' = Some([loads[1] EXCEPT !.joined = TRUE])

\* The renderer when the registry is empty or nearly full: n triangles
\* without textures were registered by add_mesh, and nothing else was called.
\* Each took `size` bytes of the shared buffer, its seven streams packed from
\* offset 0 with 4-byte alignment.
RegisteredBare(n) ==
    LET starts == <<0, 12, 60, 84, 96, 144, 192>>
        size   == 192
        base(k) == (k - 1) * size
    IN  [meshes |-> [k \in 1..n |->
                        [index_buffer_offset |-> starts[1] + base(k),
                         index_count         |-> 3]],
         mesh_blas |-> [k \in 1..n |->
                        [vertex_buffer |-> starts[2] + base(k),
                         index_buffer  |-> starts[1] + base(k),
                         index_count   |-> 3,
                         max_vertex    |-> 2]],
         mesh_buffer |-> [slot \in 0..(n - 1) |->
                        [vertex_core_offset    |-> starts[2] + base(slot + 1),
                         vertex_uv_offset      |-> starts[3] + base(slot + 1),
                         vertex_mat_offset     |-> starts[4] + base(slot + 1),
                         vertex_aux_offset     |-> starts[5] + base(slot + 1),
                         vertex_tangent_offset |-> starts[6] + base(slot + 1),
                         mat_data_offset       |-> starts[7] + base(slot + 1),
                         index_offset          |-> starts[1] + base(slot + 1)]],
         vertex_buffer |-> [k \in 1..n |->
                        [offset |-> base(k), size |-> size, materials |-> <<>>]],
         vertex_buffer_written |-> n * size]

InitRegistry ==
    /\ \E n \in {0, MAX_GPU_MESHES - 2} :
          LET r == RegisteredBare(n)
          IN  /\ meshes = r.meshes
              /\ mesh_blas = r.mesh_blas
              /\ mesh_buffer = r.mesh_buffer
              /\ vertex_buffer = r.vertex_buffer
              /\ vertex_buffer_written = r.vertex_buffer_written
    /\ bindless_descriptors = <<>>
    /\ bindless_images = <<>>
    /\ next_bindless_image_id = 0
    /\ image_luts = <<>>
    /\ loads = NoLoads
    /\ instances = <<>>
    /\ instance_handles = <<>>
    /\ instance_handle_to_index = <<>>
    /\ next_instance_handle = 0
    /\ tlas = NoAccel
    /\ rg = <<>>
    /\ frame_idx = U32(0)
    /\ prev_camera_matrices = None
    /\ current_supersample_offset = Vec2Zero
    /\ render_mode = "Standard"
    /\ call = Call("new_empty", <<>>, None)
    /\ fault = NoFault

----------------------------------------------------------------------------
(* Top-level acceleration structure *)

\* self.mesh_blas[inst.mesh.0] is in bounds for every instance
blas_in_bounds == \A i \in 1..Len(instances) : instances[i].mesh < Len(mesh_blas)

\* self.instances.iter().map(|inst| RayTracingInstanceDesc { .. }).collect()
InstanceDescs ==
    [i \in 1..Len(instances) |->
        [blas       |-> mesh_blas[instances[i].mesh + 1],
         position   |-> instances[i].position,
         rotation   |-> instances[i].rotation,
         mesh_index |-> instances[i].mesh]]

\* The structure create_ray_tracing_top_acceleration returns: `id` tells the
\* structures created one after the other apart.
NewAccel == [id |-> IF tlas = NoAccel THEN 0 ELSE tlas[1].id + 1, instances |-> InstanceDescs]

build_ray_tracing_top_level_acceleration_keep ==
    /\ fault = NoFault
    /\ call' = Call("build_ray_tracing_top_level_acceleration", <<>>, None)
    /\ IF blas_in_bounds
       THEN UNCHANGED <<tlas, fault>>
       ELSE /\ fault' = "index out of bounds: mesh_blas"
            /\ UNCHANGED tlas
    /\ UNCHANGED <<meshVars, tableVars, next_instance_handle, rg, frameVars>>

build_ray_tracing_top_level_acceleration ==
    /\ fault = NoFault
    /\ call' = Call("build_ray_tracing_top_level_acceleration", <<>>, None)
    /\ IF blas_in_bounds
       THEN /\ tlas' = Some(NewAccel)
            /\ UNCHANGED fault
       ELSE /\ fault' = "index out of bounds: mesh_blas"
            /\ UNCHANGED tlas
    /\ UNCHANGED <<meshVars, tableVars, next_instance_handle, rg, frameVars>>

\* prepare_top_level_acceleration, had it recorded no pass for an empty
\* instance table
prepare_top_level_acceleration_skip ==
    /\ fault = NoFault
    /\ IF tlas = NoAccel
       THEN /\ fault' = "called Option::unwrap() on a None value"
            /\ call' = Call("prepare_top_level_acceleration", <<>>, None)
            /\ UNCHANGED rg
       ELSE IF ~blas_in_bounds
       THEN /\ fault' = "index out of bounds: mesh_blas"
            /\ call' = Call("prepare_top_level_acceleration", <<>>, None)
            /\ UNCHANGED rg
       ELSE /\ rg' = IF instances = <<>> THEN rg
                     ELSE Append(rg, [name      |-> "rebuild tlas",
                                      write     |-> tlas[1].id,
                                      instances |-> InstanceDescs])
            /\ call' = Call("prepare_top_level_acceleration", <<>>, tlas[1].id)
            /\ UNCHANGED fault
    /\ UNCHANGED <<meshVars, tableVars, next_instance_handle, tlas, frameVars>>

\* The pass is recorded with the structure imported and the instances
\* collected by the call; it returns the handle of the imported structure.
prepare_top_level_acceleration ==
    /\ fault = NoFault
    /\ IF tlas = NoAccel
       THEN /\ fault' = "called Option::unwrap() on a None value"
            /\ call' = Call("prepare_top_level_acceleration", <<>>, None)
            /\ UNCHANGED rg
       ELSE IF ~blas_in_bounds
       THEN /\ fault' = "index out of bounds: mesh_blas"
            /\ call' = Call("prepare_top_level_acceleration", <<>>, None)
            /\ UNCHANGED rg
       ELSE /\ rg' = Append(rg, [name      |-> "rebuild tlas",
                                 write     |-> tlas[1].id,
                                 instances |-> InstanceDescs])
            /\ call' = Call("prepare_top_level_acceleration", <<>>, tlas[1].id)
            /\ UNCHANGED fault
    /\ UNCHANGED <<meshVars, tableVars, next_instance_handle, tlas, frameVars>>

\* The closure given to pass.render, had it read the instance table when it
\* runs instead of the list moved into it.
render_rebuild_tlas_live ==
    /\ fault = NoFault
    /\ rg # <<>>
    /\ LET pass == Head(rg)
       IN  /\ tlas' = IF tlas # NoAccel /\ tlas[1].id = pass.write
                      THEN Some([tlas[1] EXCEPT !.instances = InstanceDescs])
                      ELSE tlas
           /\ call' = Call("rebuild tlas", <<pass.write>>, Len(InstanceDescs))
    /\ rg' = Tail(rg)
    /\ UNCHANGED <<meshVars, tableVars, next_instance_handle, frameVars, fault>>

\* The closure given to pass.render, run when the graph executes the first
\* pass recorded: rebuild_ray_tracing_top_acceleration rebuilds the structure
\* the pass imported, from the instances the pass holds.
render_rebuild_tlas ==
    /\ fault = NoFault
    /\ rg # <<>>
    /\ LET pass == Head(rg)
       IN  /\ tlas' = IF tlas # NoAccel /\ tlas[1].id = pass.write
                      THEN Some([tlas[1] EXCEPT !.instances = pass.instances])
                      ELSE tlas
           /\ call' = Call("rebuild tlas", <<pass.write>>, Len(pass.instances))
    /\ rg' = Tail(rg)
    /\ UNCHANGED <<meshVars, tableVars, next_instance_handle, frameVars, fault>>

----------------------------------------------------------------------------
(* Frame and temporal state *)

\* fn radical_inverse(n, base), as a multiple of 1 / unit where unit is a power
\* of base large enough for every digit of n: the k-th digit d_i weighs
\* inv_base^k, that is (unit / base^k) / unit.
RECURSIVE radical_inverse(_, _, _)
radical_inverse(n, base, unit) ==
    IF n = 0 THEN 0
    ELSE (n % base) * (unit \div base)
         + radical_inverse(n \div base, base, unit \div base)

\* supersample_offsets of new_empty: Vec2(radical_inverse(i % 16 + 1, 2) - 0.5,
\* radical_inverse(i % 16 + 1, 3) - 0.5) for i in 0..16, in units of (1/64, 1/54)
supersample_offsets_short ==
    [j \in 1..15 |->
        LET i == j - 1
        IN  <<2 * radical_inverse((i % 16) + 1, 2, 32) - 32,
              2 * radical_inverse((i % 16) + 1, 3, 27) - 27>>]

\* supersample_offsets of new_empty: Vec2(radical_inverse(i % 16 + 1, 2) - 0.5,
\* radical_inverse(i % 16 + 1, 3) - 0.5) for i in 0..16, in units of (1/64, 1/54)
supersample_offsets ==
    [j \in 1..16 |->
        LET i == j - 1
        IN  <<2 * radical_inverse((i % 16) + 1, 2, 32) - 32,
              2 * radical_inverse((i % 16) + 1, 3, 27) - 27>>]

\* The caller assigns the public field render_mode.
set_render_mode(mode) ==
    /\ fault = NoFault
    /\ render_mode' = mode
    /\ call' = Call("set_render_mode", <<mode>>, None)
    /\ UNCHANGED <<meshVars, tableVars, next_instance_handle, accelVars, frame_idx,
                   prev_camera_matrices, current_supersample_offset, fault>>

prepare_render_graph_stale ==
    /\ fault = NoFault
    /\ current_supersample_offset' =
           IF render_mode = "Standard"
           THEN supersample_offsets[U32Mod(frame_idx, 8) + 1]
           ELSE Vec2Zero
    /\ call' = Call("prepare_render_graph", <<>>, None)
    /\ UNCHANGED <<meshVars, tableVars, next_instance_handle, accelVars, frame_idx,
                   prev_camera_matrices, render_mode, fault>>

\* The passes that prepare_render_graph_standard and _reference record are
\* defined outside this file.
prepare_render_graph ==
    /\ fault = NoFault
    /\ current_supersample_offset' =
           IF render_mode = "Standard"
           THEN supersample_offsets[U32Mod(frame_idx, Len(supersample_offsets)) + 1]
           ELSE Vec2Zero
    /\ call' = Call("prepare_render_graph", <<>>, None)
    /\ UNCHANGED <<meshVars, tableVars, next_instance_handle, accelVars, frame_idx,
                   prev_camera_matrices, render_mode, fault>>

\* ViewConstants::builder(camera, prev_camera, render_extent).build() followed
\* by set_pixel_offset(offset, render_extent)
ViewConstants(camera_matrices, prev, render_extent, pixel_offset) ==
    [camera_matrices      |-> camera_matrices,
     prev_camera_matrices |-> prev,
     render_extent        |-> render_extent,
     pixel_offset         |-> pixel_offset]

world_gi_scale == 1
global_fog_thickness == 0

prepare_frame_constants_eager(frame_desc) ==
    LET view_constants ==
            ViewConstants(frame_desc.camera_matrices,
                          frame_desc.camera_matrices,
                          frame_desc.render_extent,
                          current_supersample_offset)
        globals ==
            [view_constants       |-> view_constants,
             sun_direction        |-> frame_desc.sun_direction \o <<0>>,
             frame_idx            |-> frame_idx,
             world_gi_scale       |-> world_gi_scale,
             global_fog_thickness |-> global_fog_thickness]
        params == [i \in 1..Len(instances) |-> instances[i].dynamic_parameters]
    IN  /\ fault = NoFault
        /\ prev_camera_matrices' = frame_desc.camera_matrices
        /\ call' = Call("prepare_frame_constants", <<frame_desc>>,
                        [globals |-> globals, instance_dynamic_parameters |-> params])
        /\ UNCHANGED <<meshVars, tableVars, next_instance_handle, accelVars, frame_idx,
                       current_supersample_offset, render_mode, fault>>

\* prepare_frame_constants, had it pushed the parameters last instance first
prepare_frame_constants_reversed(frame_desc) ==
    LET view_constants ==
            ViewConstants(frame_desc.camera_matrices,
                          IF prev_camera_matrices = None
                          THEN frame_desc.camera_matrices
                          ELSE prev_camera_matrices,
                          frame_desc.render_extent,
                          current_supersample_offset)
        globals ==
            [view_constants       |-> view_constants,
             sun_direction        |-> frame_desc.sun_direction \o <<0>>,
             frame_idx            |-> frame_idx,
             world_gi_scale       |-> world_gi_scale,
             global_fog_thickness |-> global_fog_thickness]
        params == [i \in 1..Len(instances) |->
                      instances[Len(instances) + 1 - i].dynamic_parameters]
    IN  /\ fault = NoFault
        /\ prev_camera_matrices' = frame_desc.camera_matrices
        /\ call' = Call("prepare_frame_constants", <<frame_desc>>,
                        [globals |-> globals, instance_dynamic_parameters |-> params])
        /\ UNCHANGED <<meshVars, tableVars, next_instance_handle, accelVars, frame_idx,
                       current_supersample_offset, render_mode, fault>>

prepare_frame_constants(frame_desc) ==
    LET view_constants ==
            ViewConstants(frame_desc.camera_matrices,
                          IF prev_camera_matrices = None
                          THEN frame_desc.camera_matrices
                          ELSE prev_camera_matrices,
                          frame_desc.render_extent,
                          current_supersample_offset)
        globals ==
            [view_constants       |-> view_constants,
             sun_direction        |-> frame_desc.sun_direction \o <<0>>,
             frame_idx            |-> frame_idx,
             world_gi_scale       |-> world_gi_scale,
             global_fog_thickness |-> global_fog_thickness]
        params == [i \in 1..Len(instances) |-> instances[i].dynamic_parameters]
    IN  /\ fault = NoFault
        /\ prev_camera_matrices' = frame_desc.camera_matrices
        /\ call' = Call("prepare_frame_constants", <<frame_desc>>,
                        [globals |-> globals, instance_dynamic_parameters |-> params])
        /\ UNCHANGED <<meshVars, tableVars, next_instance_handle, accelVars, frame_idx,
                       current_supersample_offset, render_mode, fault>>

store_prev_mesh_transforms_bad(insts) ==
    [i \in 1..Len(insts) |->
        [insts[i] EXCEPT !.prev_position = insts[i].position]]

store_prev_mesh_transforms(insts) ==
    [i \in 1..Len(insts) |->
        [insts[i] EXCEPT !.prev_position = insts[i].position,
                         !.prev_rotation = insts[i].rotation]]

retire_frame ==
    /\ fault = NoFault
    /\ frame_idx' = overflowing_add_1(frame_idx)
    /\ instances' = store_prev_mesh_transforms(instances)
    /\ call' = Call("retire_frame", <<>>, None)
    /\ UNCHANGED <<meshVars, instance_handles, instance_handle_to_index,
                   next_instance_handle, accelVars, prev_camera_matrices,
                   current_supersample_offset, render_mode, fault>>

reset_frame_idx ==
    /\ fault = NoFault
    /\ frame_idx' = U32(0)
    /\ call' = Call("reset_frame_idx", <<>>, None)
    /\ UNCHANGED <<meshVars, tableVars, next_instance_handle, accelVars,
                   prev_camera_matrices, current_supersample_offset, render_mode, fault>>

----------------------------------------------------------------------------
(* Inputs *)

\* InstanceHandle arguments: every handle that can have been issued and one
\* that cannot
InstanceHandles == 0..MaxInstanceHandle

\* MeshHandle arguments
MeshHandles == {0, 1}

\* (position, rotation) arguments.  The second quaternion is a half turn about
\* x; the third is -identity, the same rotation as the first.
Transforms ==
    { <<Vec3Zero, QuatIdentity>>,
      <<<<1, 0, 0>>, <<1, 0, 0, 0>>>>,
      <<Vec3Zero, <<0, 0, 0, -1>>>> }

\* Stream(n, size): n elements of `size` bytes each, 4-byte aligned
Stream(n, size) == [bytes |-> n * size, align |-> 4]

\* One triangle with one material whose four texture slots name two texture
\* assets, one of them twice
TriangleMesh ==
    [maps            |-> <<7, 5, 7>>,
     materials       |-> <<[maps |-> <<0, 1, 2, 1>>]>>,
     indices         |-> <<0, 1, 2>>,
     indices_chunk   |-> Stream(3, 4),
     verts           |-> Stream(3, 16),
     uvs             |-> Stream(3, 8),
     material_ids    |-> Stream(3, 4),
     colors          |-> Stream(3, 16),
     tangents        |-> Stream(3, 16),
     materials_chunk |-> Stream(1, 80)]

\* The seven streams of a mesh, in the order add_mesh appends them
Streams(mesh) ==
    <<mesh.indices_chunk, mesh.verts, mesh.uvs, mesh.material_ids, mesh.colors,
      mesh.tangents, mesh.materials_chunk>>

\* One triangle without textures and without materials
BareMesh ==
    [maps            |-> <<>>,
     materials       |-> <<>>,
     indices         |-> <<0, 1, 2>>,
     indices_chunk   |-> Stream(3, 4),
     verts           |-> Stream(3, 16),
     uvs             |-> Stream(3, 8),
     material_ids    |-> Stream(3, 4),
     colors          |-> Stream(3, 16),
     tangents        |-> Stream(3, 16),
     materials_chunk |-> Stream(0, 80)]

\* A mesh without indices
EmptyMesh ==
    [maps            |-> <<>>,
     materials       |-> <<>>,
     indices         |-> <<>>,
     indices_chunk   |-> Stream(0, 4),
     verts           |-> Stream(0, 16),
     uvs             |-> Stream(0, 8),
     material_ids    |-> Stream(0, 4),
     colors          |-> Stream(0, 16),
     tangents        |-> Stream(0, 16),
     materials_chunk |-> Stream(0, 80)]

Meshes == {TriangleMesh, BareMesh, EmptyMesh}

\* One triangle with one material whose four texture slots name three
\* texture assets, given out of order
ThreeTextureMesh ==
    [TriangleMesh EXCEPT !.maps = <<9, 3, 6>>,
                         !.materials = <<[maps |-> <<2, 0, 1, 0>>]>>]

TexturedMeshes == {TriangleMesh, ThreeTextureMesh, BareMesh}

\* (position, rotation) arguments away from the origin
TransformsElsewhere ==
    { <<<<1, 0, 0>>, QuatIdentity>>,
      <<<<0, 2, 0>>, <<1, 0, 0, 0>>>> }

\* An image that is not a texture of a mesh
SomeImage == [name |-> "image"]

Cameras == {"cam0", "cam1"}

FrameDesc(c) ==
    [camera_matrices |-> c, render_extent |-> <<4, 4>>, sun_direction |-> <<0, 1, 0>>]

----------------------------------------------------------------------------
(* Specifications *)

\* A scene of one mesh: its instances are added, moved and removed over the
\* frames.
Next ==
    \/ meshes = <<>> /\ add_mesh(TriangleMesh)
    \/ /\ meshes # <<>>
       /\ next_instance_handle < MaxInstanceHandle
       /\ \E t \in Transforms : add_instance(0, t[1], t[2])
    \/ \E h \in InstanceHandles : remove_instance(h)
    \/ \E h \in InstanceHandles, t \in Transforms : set_instance_transform(h, t[1], t[2])
    \/ prepare_frame_constants(FrameDesc("cam0"))
    \/ frame_idx # U32(MaxFrameIdx) /\ retire_frame

Spec == Init /\ [][Next]_vars

\* Instances of several meshes, registered or not, within one frame.
NextHandles ==
    \/ Len(meshes) < MaxMeshes /\ add_mesh(TriangleMesh)
    \/ /\ next_instance_handle < MaxInstanceHandle
       /\ \E m \in MeshHandles, t \in Transforms : add_instance(m, t[1], t[2])
    \/ \E h \in InstanceHandles : remove_instance(h)
    \/ \E h \in InstanceHandles, t \in Transforms : set_instance_transform(h, t[1], t[2])

SpecHandles == Init /\ [][NextHandles]_vars

\* Handles used, misused and reused on instances whose shading parameters change.
NextParams ==
    \/ meshes = <<>> /\ add_mesh(TriangleMesh)
    \/ /\ meshes # <<>>
       /\ next_instance_handle < MaxInstanceHandle
       /\ add_instance(0, Vec3Zero, QuatIdentity)
    \/ \E h \in InstanceHandles : remove_instance(h)
    \/ \E h \in InstanceHandles, t \in Transforms : set_instance_transform(h, t[1], t[2])
    \/ \E h \in InstanceHandles : get_instance_dynamic_parameters_mut(h, 2)
    \/ prepare_frame_constants(FrameDesc("cam0"))

SpecParams == Init /\ [][NextParams]_vars

\* The top-level structure is built and rebuilt while meshes are registered,
\* instances of registered and unregistered meshes come and go and frames
\* are prepared and retired.
NextAccel ==
    \/ Len(meshes) < MaxMeshes /\ add_mesh(BareMesh)
    \/ /\ next_instance_handle < MaxFewHandles
       /\ \E m \in MeshHandles : add_instance(m, Vec3Zero, QuatIdentity)
    \/ \E h \in 0..MaxFewHandles : remove_instance(h)
    \/ /\ IF tlas = NoAccel THEN TRUE ELSE tlas[1].id < MaxRebuilt
       /\ build_ray_tracing_top_level_acceleration
    \/ Len(rg) < MaxPasses /\ prepare_top_level_acceleration
    \/ render_rebuild_tlas
    \/ prepare_frame_constants(FrameDesc("cam0"))
    \/ frame_idx # U32(MaxFrameIdx) /\ retire_frame

SpecAccel == Init /\ [][NextAccel]_vars

\* Instances of one mesh are added, moved and removed between the recording
\* of a rebuild pass and its execution.
NextSnapshot ==
    \/ meshes = <<>> /\ add_mesh(BareMesh)
    \/ /\ meshes # <<>>
       /\ next_instance_handle < MaxFewHandles
       /\ add_instance(0, Vec3Zero, QuatIdentity)
    \/ \E h \in 0..(MaxFewHandles - 1) : remove_instance(h)
    \/ \E h \in 0..(MaxFewHandles - 1) :
          set_instance_transform(h, <<1, 0, 0>>, <<1, 0, 0, 0>>)
    \/ tlas = NoAccel /\ build_ray_tracing_top_level_acceleration
    \/ Len(rg) < MaxPasses /\ prepare_top_level_acceleration
    \/ render_rebuild_tlas

SpecSnapshot == Init /\ [][NextSnapshot]_vars

\* The frame counter, while frames are prepared, retired and reset and an
\* instance is added, moved and removed.
NextCounter ==
    \/ meshes = <<>> /\ add_mesh(BareMesh)
    \/ /\ next_instance_handle < MaxFewHandles
       /\ add_instance(0, Vec3Zero, QuatIdentity)
    \/ \E h \in 0..MaxFewHandles : remove_instance(h)
    \/ \E h \in 0..MaxFewHandles :
          set_instance_transform(h, <<1, 0, 0>>, <<1, 0, 0, 0>>)
    \/ prepare_render_graph
    \/ prepare_frame_constants(FrameDesc("cam0"))
    \/ frame_idx # U32(MaxFrameIdx) /\ retire_frame
    \/ reset_frame_idx

SpecCounter == InitFrame /\ [][NextCounter]_vars

\* Frames prepared and retired one after the other, through more than one
\* turn of the jitter sequence and through the wrap of the frame index.
NextJitter ==
    \/ prepare_render_graph
    \/ prepare_frame_constants(FrameDesc("cam0"))
    \/ frame_idx # U32(MaxJitterFrame) /\ retire_frame

SpecJitter == InitJitter /\ [][NextJitter]_vars

\* One mesh, a first instance at the origin, a second one elsewhere once a
\* frame was retired, the first one removed once the second exists; frames
\* are prepared and retired in between, in any order.
NextScenario ==
    \/ meshes = <<>> /\ add_mesh(TriangleMesh)
    \/ /\ meshes # <<>>
       /\ next_instance_handle = 0
       /\ add_instance(0, Vec3Zero, QuatIdentity)
    \/ prepare_render_graph
    \/ \E c \in Cameras : prepare_frame_constants(FrameDesc(c))
    \/ frame_idx # U32(MaxFrameIdx) /\ retire_frame
    \/ /\ next_instance_handle = 1
       /\ frame_idx # U32(0)
       /\ \E t \in TransformsElsewhere : add_instance(0, t[1], t[2])
    \/ next_instance_handle = 2 /\ remove_instance(0)

SpecScenario == Init /\ [][NextScenario]_vars

\* The frame loop, in any order, on a renderer without instances.
NextFrame ==
    \/ \E m \in {"Standard", "Reference"} : set_render_mode(m)
    \/ prepare_render_graph
    \/ \E c \in Cameras : prepare_frame_constants(FrameDesc(c))
    \/ frame_idx # U32(MaxFrameIdx) /\ retire_frame
    \/ reset_frame_idx

SpecFrame == InitFrame /\ [][NextFrame]_vars

\* Meshes, images and lookup tables registered in any order.
NextMesh ==
    \/ /\ Len(meshes) < MaxSceneMeshes \/ Len(meshes) >= MAX_GPU_MESHES - 2
       /\ \E m \in Meshes : add_mesh(m)
    \/ next_bindless_image_id < MaxImages /\ add_image(SomeImage)
    \/ /\ next_bindless_image_id < MaxImages
       /\ \E id \in 0..MaxImages : add_image_lut("computer", id)

SpecMesh == Init /\ [][NextMesh]_vars

\* The same, on an empty registry and on one that is two meshes short of full.
SpecRegistry == InitRegistry /\ [][NextMesh]_vars

\* Meshes registered one after the other, the texture loads of each running
\* in parallel and finishing in any order; an image is registered between
\* two of them.
NextLoad ==
    \/ /\ Len(meshes) < MaxLoadedMeshes
       /\ \E m \in TexturedMeshes : add_mesh_fork(m)
    \/ \E i \in 1..MaxTextures : load_thread(i)
    \/ add_mesh_join
    \/ /\ ~in_parallel_region
       /\ next_bindless_image_id < MaxImages
       /\ add_image(SomeImage)

SpecLoad == Init /\ [][NextLoad]_vars

----------------------------------------------------------------------------
(* Properties *)

\* A handle resolves when the map has an entry for it that lies inside the
\* instance array; it resolves to the instance stored there.
Resolves(map, insts, h) == h \in DOMAIN map /\ map[h] \in 0..(Len(insts) - 1)

Resolve(map, insts, h) == insts[map[h] + 1]

Live == DOMAIN instance_handle_to_index

\* C1. Handle stability: across every call, the handles alive are those alive
\* before, plus the one an add_instance returns, minus the one a
\* remove_instance takes; every handle alive before and after resolves to an
\* instance with the same mesh and, unless the call is a set_instance_transform
\* of that handle, the same position and rotation; a set_instance_transform
\* makes its handle resolve to the transform given, an add_instance makes the
\* returned handle resolve to the mesh and transform given.
C1_HandleStability ==
    [][ /\ Live' = (Live \cup (IF call'.op = "add_instance" THEN {call'.ret} ELSE {}))
                       \ (IF call'.op = "remove_instance" THEN {call'.args[1]} ELSE {})
        /\ \A h \in Live \cap Live' :
              LET old == Resolve(instance_handle_to_index, instances, h)
                  new == Resolve(instance_handle_to_index', instances', h)
              IN  /\ Resolves(instance_handle_to_index, instances, h)
                  /\ Resolves(instance_handle_to_index', instances', h)
                  /\ new.mesh = old.mesh
                  /\ IF call'.op = "set_instance_transform" /\ call'.args[1] = h
                     THEN /\ new.position = call'.args[2]
                          /\ new.rotation = from_quat(call'.args[3])
                     ELSE /\ new.position = old.position
                          /\ new.rotation = old.rotation
        /\ call'.op = "add_instance" =>
              LET new == Resolve(instance_handle_to_index', instances', call'.ret)
              IN  /\ Resolves(instance_handle_to_index', instances', call'.ret)
                  /\ new.mesh = call'.args[1]
                  /\ new.position = call'.args[2]
                  /\ new.rotation = from_quat(call'.args[3])
      ]_vars

\* A removal has moved a later handle in front of an earlier one, and the two
\* instances differ in mesh and position.
C1_Witness ==
    /\ call.op = "remove_instance"
    /\ fault = NoFault
    /\ Len(instance_handles) = 2
    /\ instance_handles[1] > instance_handles[2]
    /\ instances[1].mesh = 1
    /\ instances[2].mesh = 0
    /\ instances[1].position # instances[2].position

\* C2. Swap-remove: a remove_instance of a live handle stored at slot k of n
\* leaves n - 1 instances and handles and removes that handle from the map;
\* when k is not the last slot the handle of slot n - 1 maps to slot k and its
\* instance is stored there; every other handle keeps its slot and instance.
C2_SwapRemove ==
    [][ (call'.op = "remove_instance" /\ call'.args[1] \in Live) =>
          LET h    == call'.args[1]
              k    == instance_handle_to_index[h]
              n    == Len(instances)
              last == instance_handles[n]
          IN  /\ fault' = NoFault
              /\ Len(instances') = n - 1
              /\ Len(instance_handles') = n - 1
              /\ Live' = Live \ {h}
              /\ k # n - 1 =>
                    /\ instance_handle_to_index'[last] = k
                    /\ instance_handles'[k + 1] = last
                    /\ instances'[k + 1] = instances[n]
              /\ \A g \in Live \ {h, last} :
                    /\ instance_handle_to_index'[g] = instance_handle_to_index[g]
                    /\ instance_handles'[instance_handle_to_index[g] + 1] = g
                    /\ instances'[instance_handle_to_index[g] + 1]
                          = instances[instance_handle_to_index[g] + 1]
      ]_vars

\* The first of three instances was removed: the third took its slot, the
\* second kept its own.
C2_Witness ==
    /\ call.op = "remove_instance"
    /\ fault = NoFault
    /\ instance_handles = <<2, 1>>
    /\ instance_handle_to_index[2] = 0
    /\ instance_handle_to_index[1] = 1

\* C3. Right after add_instance the new instance's previous position and
\* rotation equal its current position and rotation.
C3_PrevEqualsCurrentAfterAdd ==
    call.op = "add_instance" =>
        LET inst == instances[Len(instances)]
        IN  /\ inst.prev_position = inst.position
            /\ inst.prev_rotation = inst.rotation

\* C4. A retire_frame sets every instance's previous position and rotation
\* to the current position and rotation it had when retire_frame was called,
\* and changes nothing else of the instance.
C4_RetireCopiesCurrent ==
    [][ call'.op = "retire_frame" =>
          /\ Len(instances') = Len(instances)
          /\ \A i \in 1..Len(instances) :
                instances'[i] = [instances[i] EXCEPT
                                    !.prev_position = instances[i].position,
                                    !.prev_rotation = instances[i].rotation]
      ]_vars

\* A second retirement took over a rotation and a position that were set after
\* the instance was created.
C4_Witness ==
    /\ call.op = "retire_frame"
    /\ frame_idx = U32(2)
    /\ \E i \in 1..Len(instances) :
          /\ instances[i].prev_rotation # Mat3Identity
          /\ instances[i].prev_rotation = instances[i].rotation
          /\ instances[i].prev_position = instances[i].position

\* C5. Every stored instance references a registered mesh, one that has a
\* bottom-level acceleration structure.
C5_InstancesReferenceRegisteredMeshes ==
    \A i \in 1..Len(instances) :
        /\ instances[i].mesh < Len(meshes)
        /\ instances[i].mesh < Len(mesh_blas)

\* C6. remove_instance, set_instance_transform and
\* get_instance_dynamic_parameters_mut called with a handle that is not alive
\* (never issued, or removed) end in a panic and leave the instance array, the
\* handle array and the map unchanged.
C6_HandleMisuseIsFatal ==
    [][ ( /\ call'.op \in {"remove_instance", "set_instance_transform",
                           "get_instance_dynamic_parameters_mut"}
          /\ call'.args[1] \notin Live ) =>
            /\ fault' # NoFault
            /\ UNCHANGED tableVars
      ]_vars

\* A handle that was issued and removed was passed to one of the three.
C6_Witness ==
    /\ fault # NoFault
    /\ call.op = "get_instance_dynamic_parameters_mut"
    /\ call.args[1] < next_instance_handle
    /\ instances # <<>>

\* C7. The instance array, the handle array and the map have the same size,
\* and the map is the inverse of the handle array.
C7_StorageInvariant ==
    /\ Len(instances) = Len(instance_handles)
    /\ Cardinality(Live) = Len(instance_handles)
    /\ \A h \in Live :
          /\ instance_handle_to_index[h] \in 0..(Len(instance_handles) - 1)
          /\ instance_handles[instance_handle_to_index[h] + 1] = h
    /\ \A i \in 1..Len(instance_handles) :
          /\ instance_handles[i] \in Live
          /\ instance_handle_to_index[instance_handles[i]] = i - 1

\* Two instances are left of three, out of insertion order.
C7_Witness ==
    /\ Len(instances) = 2
    /\ next_instance_handle = 3
    /\ instance_handles[1] > instance_handles[2]

\* C8. The handle counter never decreases; add_instance returns the counter's
\* value, greater than every handle alive, and increments the counter; every
\* handle alive is below the counter.
C8_FreshHandles ==
    [][ /\ next_instance_handle' >= next_instance_handle
        /\ \A h \in Live' : h < next_instance_handle'
        /\ call'.op = "add_instance" =>
              /\ call'.ret = next_instance_handle
              /\ next_instance_handle' = next_instance_handle + 1
              /\ \A h \in Live : h < call'.ret
              /\ call'.ret \notin Live
      ]_vars

\* An instance was added after removals emptied the table: its handle is not
\* its slot.
C8_Witness ==
    /\ call.op = "add_instance"
    /\ call.ret = 2
    /\ Len(instances) = 1

\* The jitter offset and the frame index a prepare_frame_constants call
\* serialized
PushedOffset(c) == c.ret.globals.view_constants.pixel_offset
PushedFrameIdx(c) == c.ret.globals.frame_idx

\* sequence[f mod 16]
Jitter(f) == supersample_offsets[U32Mod(f, 16) + 1]

\* C9, as claimed. The jitter offset a prepare_frame_constants call applies is
\* sequence[frame_idx mod 16] for the frame index it serializes, in any order
\* of the calls and in every render mode.
C9_JitterOfCurrentFrame ==
    call.op = "prepare_frame_constants" =>
        /\ PushedFrameIdx(call) = frame_idx
        /\ PushedOffset(call) = Jitter(frame_idx)

\* C9, amended. prepare_render_graph stores sequence[frame_idx mod 16] in
\* Standard mode and zero in Reference mode, no other call changes the stored
\* offset, and prepare_frame_constants applies the stored offset and serializes
\* the current frame index; so a prepare_frame_constants that directly follows
\* a prepare_render_graph made in Standard mode applies sequence[frame_idx mod
\* 16] for the frame index it serializes.
C9_JitterOfLatestRenderGraph ==
    [][ /\ current_supersample_offset' =
              IF call'.op = "prepare_render_graph"
              THEN IF render_mode = "Standard" THEN Jitter(frame_idx) ELSE Vec2Zero
              ELSE current_supersample_offset
        /\ call'.op = "prepare_frame_constants" =>
              /\ PushedOffset(call') = current_supersample_offset
              /\ PushedFrameIdx(call') = frame_idx
              /\ (call.op = "prepare_render_graph" /\ render_mode = "Standard") =>
                    PushedOffset(call') = Jitter(PushedFrameIdx(call'))
      ]_vars

\* The last frame before the frame index wraps was prepared in Standard mode
\* and got the last entry of the sequence.
C9_Witness ==
    /\ call.op = "prepare_frame_constants"
    /\ render_mode = "Standard"
    /\ frame_idx = <<Half - 1, Half - 1>>
    /\ PushedFrameIdx(call) = frame_idx
    /\ PushedOffset(call) = supersample_offsets[16]
    /\ PushedOffset(call) # Vec2Zero

\* C10. A prepare_frame_constants call builds the view constants from its own
\* camera matrices and, as previous ones, from the stored previous camera, or
\* from its own when none is stored; it stores its own camera matrices; no
\* other call changes the stored previous camera, which is absent at the
\* start.  So the first call uses its own camera as previous and every later
\* call uses the camera of the call before it.
C10_PrevCameraHistory ==
    [][ IF call'.op = "prepare_frame_constants"
        THEN LET vc     == call'.ret.globals.view_constants
                 camera == call'.args[1].camera_matrices
             IN  /\ vc.camera_matrices = camera
                 /\ vc.prev_camera_matrices =
                        IF prev_camera_matrices = None THEN camera
                        ELSE prev_camera_matrices
                 /\ prev_camera_matrices' = camera
        ELSE prev_camera_matrices' = prev_camera_matrices
      ]_vars

\* A later call, after a retirement, got another camera than the call before.
C10_Witness ==
    /\ call.op = "prepare_frame_constants"
    /\ frame_idx # U32(0)
    /\ call.ret.globals.view_constants.camera_matrices = "cam1"
    /\ call.ret.globals.view_constants.prev_camera_matrices = "cam0"

\* The byte range of the shared buffer that the k-th registration uploaded
RangeStart(k) == vertex_buffer[k].offset
RangeEnd(k) == vertex_buffer[k].offset + vertex_buffer[k].size

\* The offsets recorded for the k-th mesh, in the order its streams were
\* packed: those of its GpuMesh record and that of its UploadedTriMesh
RecordedOffsets(buffer, uploaded, k) ==
    <<buffer[k - 1].index_offset, buffer[k - 1].vertex_core_offset,
      buffer[k - 1].vertex_uv_offset, buffer[k - 1].vertex_mat_offset,
      buffer[k - 1].vertex_aux_offset, buffer[k - 1].vertex_tangent_offset,
      buffer[k - 1].mat_data_offset, uploaded[k].index_buffer_offset>>

\* The ranges uploaded follow one another from offset 0 without a gap or an
\* overlap, and the bytes-written counter is the end of the last one.
RangesChain ==
    /\ \A k \in 1..Len(vertex_buffer) :
          RangeStart(k) = IF k = 1 THEN 0 ELSE RangeEnd(k - 1)
    /\ \A j, k \in 1..Len(vertex_buffer) : j < k => RangeEnd(j) <= RangeStart(k)
    /\ vertex_buffer_written =
          IF vertex_buffer = <<>> THEN 0 ELSE RangeEnd(Len(vertex_buffer))

\* C11, as claimed. The range of each mesh starts where the range of the mesh
\* before it ends, no two ranges overlap, and every offset recorded in a
\* mesh's GpuMesh record and UploadedTriMesh lies inside that mesh's range
\* [start, end).
C11_OffsetsInsideOwnRange ==
    /\ RangesChain
    /\ \A k \in 1..Len(meshes) :
          LET offsets == RecordedOffsets(mesh_buffer, meshes, k)
          IN  \A i \in 1..Len(offsets) :
                  RangeStart(k) <= offsets[i] /\ offsets[i] < RangeEnd(k)

\* C11, amended. The ranges follow one another from offset 0 without overlap;
\* the bytes-written counter never decreases; a successful add_mesh is
\* assigned the range from the counter before it to the counter after it,
\* the bytes of each of its seven streams, from the offset recorded for the
\* stream to that offset plus the stream's size, lie inside that range, and
\* the records of the meshes registered before are left as they were.
C11_StreamsInsideOwnRange ==
    /\ []RangesChain
    /\ [][ /\ vertex_buffer_written' >= vertex_buffer_written
           /\ (call'.op = "add_mesh" /\ fault' = NoFault) =>
                LET k       == Len(meshes')
                    streams == Streams(call'.args[1])
                    offsets == RecordedOffsets(mesh_buffer', meshes', k)
                IN  /\ k = Len(meshes) + 1
                    /\ k = Len(vertex_buffer')
                    /\ vertex_buffer'[k].offset = vertex_buffer_written
                    /\ vertex_buffer'[k].offset + vertex_buffer'[k].size = vertex_buffer_written'
                    /\ \A i \in 1..7 :
                          /\ vertex_buffer_written <= offsets[i]
                          /\ offsets[i] + streams[i].bytes <= vertex_buffer_written'
                    /\ offsets[8] = offsets[1]
                    /\ \A j \in 1..Len(meshes) :
                          /\ mesh_buffer'[j - 1] = mesh_buffer[j - 1]
                          /\ meshes'[j] = meshes[j]
                          /\ vertex_buffer'[j] = vertex_buffer[j]
         ]_vars

\* A textured mesh was registered after a mesh without materials: the
\* material offset recorded for the first is where the range of the second
\* starts.
C11_Witness ==
    /\ Len(meshes) = 3
    /\ fault = NoFault
    /\ vertex_buffer[2].materials # <<>>
    /\ mesh_buffer[0].mat_data_offset = RangeStart(2)
    /\ RangeStart(3) > RangeStart(2)

\* The texture identities of a mesh
Identities(mesh) == {mesh.maps[j] : j \in 1..Len(mesh.maps)}

\* The descriptor written for the image loaded for a texture identity
TextureView(asset) == View(load_gpu_image_asset(asset))

\* C12. An add_mesh that is not aborted registers each texture identity of
\* the mesh once: it issues as many handles as the mesh has distinct
\* identities, none of them issued before, each identity has exactly one of
\* them, whose descriptor is the view of the image loaded for that identity;
\* and in the materials it uploads every texture slot holds the handle of
\* the identity the slot named, so that the occurrences of one identity hold
\* one handle and two identities hold two handles.
C12_TexturesRegisteredOnce ==
    [][ (call'.op = "add_mesh" /\ fault' # UndefinedWrite) =>
          LET mesh == call'.args[1]
              new  == next_bindless_image_id..(next_bindless_image_id' - 1)
              HandleOf(a) == CHOOSE h \in new : bindless_descriptors'[h] = TextureView(a)
          IN  /\ Cardinality(new) = Cardinality(Identities(mesh))
              /\ new \cap DOMAIN bindless_descriptors = {}
              /\ new \subseteq DOMAIN bindless_descriptors'
              /\ \A a \in Identities(mesh) :
                    Cardinality({h \in new : bindless_descriptors'[h] = TextureView(a)}) = 1
              /\ \A a, b \in Identities(mesh) : a # b => HandleOf(a) # HandleOf(b)
              /\ Len(vertex_buffer') > Len(vertex_buffer) =>
                    LET uploaded == vertex_buffer'[Len(vertex_buffer')].materials
                    IN  /\ Len(uploaded) = Len(mesh.materials)
                        /\ \A k \in 1..Len(uploaded) :
                              \A j \in 1..Len(uploaded[k].maps) :
                                  uploaded[k].maps[j] =
                                      HandleOf(mesh.maps[mesh.materials[k].maps[j] + 1])
      ]_vars

\* A mesh naming one texture twice and another once was registered after an
\* image: its four texture slots hold two handles, neither of them the first.
C12_Witness ==
    /\ call.op = "add_mesh"
    /\ fault = NoFault
    /\ call.args[1].maps = <<7, 5, 7>>
    /\ next_bindless_image_id = 3
    /\ vertex_buffer[Len(vertex_buffer)].materials[1].maps = <<2, 1, 2, 1>>

\* C13. The descriptors written are those of the array elements 0 to the
\* number of registrations less one, a descriptor once written is never
\* changed, and the counter never decreases; an add_image that returns
\* returns the counter's value, writes the view of its image at that array
\* element and increments the counter; an add_image_lut does the same with
\* the view of its lookup table, and it succeeds exactly when its id is the
\* counter's value; an add_mesh takes the next handles in order.
C13_DenseIncreasingHandles ==
    /\ [](fault # UndefinedWrite =>
            DOMAIN bindless_descriptors = 0..(next_bindless_image_id - 1))
    /\ [][ /\ next_bindless_image_id' >= next_bindless_image_id
           /\ \A h \in DOMAIN bindless_descriptors :
                 /\ h \in DOMAIN bindless_descriptors'
                 /\ bindless_descriptors'[h] = bindless_descriptors[h]
           /\ (call'.op = "add_image" /\ fault' = NoFault) =>
                 /\ call'.ret = next_bindless_image_id
                 /\ next_bindless_image_id' = next_bindless_image_id + 1
                 /\ bindless_descriptors'[call'.ret] = View(call'.args[1])
           /\ (call'.op = "add_image_lut" /\ fault' # UndefinedWrite) =>
                 /\ next_bindless_image_id' = next_bindless_image_id + 1
                 /\ bindless_descriptors'[next_bindless_image_id]
                        = View(LutImage(call'.args[1]))
                 /\ (fault' = NoFault) <=> (call'.args[2] = next_bindless_image_id)
           /\ (call'.op = "add_mesh" /\ fault' # UndefinedWrite) =>
                 DOMAIN bindless_descriptors' = 0..(next_bindless_image_id' - 1)
         ]_vars

\* A lookup table was registered under the id 0, then an image, then a mesh
\* of two textures: the three paths took the handles 0 to 3 between them.
C13_Witness ==
    /\ call.op = "add_mesh"
    /\ fault = NoFault
    /\ next_bindless_image_id = 4
    /\ bindless_descriptors[0] = View(LutImage("computer"))
    /\ bindless_descriptors[1] = View(SomeImage)
    /\ bindless_descriptors[3] = TextureView(7)

\* C14. A registration beyond the table's size ends the program: while the
\* program runs, no more images are registered than the table has elements,
\* no descriptor is written at an array element outside the table, and no
\* handle at or beyond the table's size is issued.
C14_TableCapacityIsEnforced ==
    fault = NoFault =>
        /\ next_bindless_image_id <= BindlessTableSize
        /\ \A h \in DOMAIN bindless_descriptors : h < BindlessTableSize
        /\ call.op = "add_image" => call.ret < BindlessTableSize

\* C15. The registry holds as many meshes as bottom-level structures and as
\* GpuMesh slots written, the slots 0 to that number less one, and at most
\* MAX_GPU_MESHES; no call removes, moves or changes a registered mesh, its
\* structure or its slot; an add_mesh that returns appends one mesh and one
\* structure, returns the number of meshes registered before it as the
\* handle, writes the slot of that number, and the three agree on where the
\* mesh's indices are; an add_mesh on a registry of MAX_GPU_MESHES meshes
\* ends the program, returns no handle and registers nothing.
C15_MeshHandleIsRegistrationIndex ==
    /\ [](/\ Len(meshes) = Len(mesh_blas)
           /\ DOMAIN mesh_buffer = 0..(Len(meshes) - 1)
           /\ Len(meshes) <= MAX_GPU_MESHES)
    /\ [][ /\ Len(meshes') >= Len(meshes)
           /\ \A k \in 0..(Len(meshes) - 1) :
                 /\ meshes'[k + 1] = meshes[k + 1]
                 /\ mesh_blas'[k + 1] = mesh_blas[k + 1]
                 /\ mesh_buffer'[k] = mesh_buffer[k]
           /\ (call'.op = "add_mesh" /\ fault' = NoFault) =>
                 LET k == Len(meshes)
                 IN  /\ call'.ret = k
                     /\ Len(meshes') = k + 1
                     /\ Len(mesh_blas') = k + 1
                     /\ mesh_buffer'[k].index_offset = meshes'[k + 1].index_buffer_offset
                     /\ mesh_blas'[k + 1].index_buffer = meshes'[k + 1].index_buffer_offset
                     /\ mesh_blas'[k + 1].vertex_buffer = mesh_buffer'[k].vertex_core_offset
                     /\ meshes'[k + 1].index_count = Len(call'.args[1].indices)
           /\ (call'.op = "add_mesh" /\ Len(meshes) >= MAX_GPU_MESHES) =>
                 /\ fault' # NoFault
                 /\ call'.ret = None
                 /\ Len(meshes') = Len(meshes)
           /\ call'.op # "add_mesh" => Len(meshes') = Len(meshes)
         ]_vars

\* The registry was full, with two kinds of mesh in its last two slots, when
\* one more mesh was registered.
C15_Witness ==
    /\ call.op = "add_mesh"
    /\ fault = "index out of bounds: mesh_buffer"
    /\ Len(meshes) = MAX_GPU_MESHES
    /\ mesh_buffer[MAX_GPU_MESHES - 1].mat_data_offset
          # mesh_buffer[MAX_GPU_MESHES - 2].mat_data_offset + 192

\* C16. The renderer starts without a top-level structure; a
\* build_ray_tracing_top_level_acceleration that returns leaves one; a
\* prepare_top_level_acceleration called without one ends the program in a
\* panic and records no pass; one called with a structure leaves it in
\* place; and no step at all takes the structure away once there is one:
\* not a rebuild pass, an add_instance, a remove_instance, an add_mesh, a
\* prepare_frame_constants or a retire_frame.
C16_TlasLifecycle ==
    /\ tlas = NoAccel
    /\ [][ /\ tlas # NoAccel => tlas' # NoAccel
           /\ (call'.op = "build_ray_tracing_top_level_acceleration"
                   /\ fault' = NoFault) => tlas' # NoAccel
           /\ call'.op = "prepare_top_level_acceleration" =>
                 /\ tlas' = tlas
                 /\ tlas = NoAccel => (fault' # NoFault /\ rg' = rg)
                 /\ fault' = NoFault => (tlas # NoAccel /\ Len(rg') = Len(rg) + 1)
           /\ call'.op \notin {"build_ray_tracing_top_level_acceleration",
                                "rebuild tlas"} => tlas' = tlas
         ]_vars

\* A rebuild pass ran on a structure that was built when the scene had an
\* instance, after that instance was removed and a frame was retired.
C16_Witness ==
    /\ call.op = "rebuild tlas"
    /\ tlas # NoAccel
    /\ tlas[1].instances = <<>>
    /\ instances = <<>>
    /\ next_instance_handle > 0
    /\ frame_idx # U32(0)

\* w is v + 1 modulo 2^32, on the halves of the two
IsSuccessor(v, w) ==
    IF v = <<Half - 1, Half - 1>> THEN w = <<0, 0>>
    ELSE /\ w[1] \in 0..(Half - 1)
         /\ w[2] \in 0..(Half - 1)
         /\ w[1] - v[1] \in {0, 1}
         /\ (w[1] - v[1]) * Half + (w[2] - v[2]) = 1

\* C17. A retire_frame never ends in a panic and leaves the frame index one
\* higher modulo 2^32, 0 after 2^32 - 1; a reset_frame_idx leaves it 0; every
\* other call leaves it as it was; and prepare_frame_constants serializes
\* the frame index as it is.
C17_FrameIdxCountsRetirements ==
    [][ /\ call'.op = "retire_frame" =>
              /\ fault' = NoFault
              /\ IsSuccessor(frame_idx, frame_idx')
        /\ call'.op = "reset_frame_idx" => frame_idx' = <<0, 0>>
        /\ call'.op \notin {"retire_frame", "reset_frame_idx"} =>
              frame_idx' = frame_idx
        /\ call'.op = "prepare_frame_constants" =>
              PushedFrameIdx(call') = frame_idx
      ]_vars

\* Frame 2^32 - 1 was retired, with a moved instance in the scene: the frame
\* index is 0 and the program runs.
C17_Witness ==
    /\ call.op = "retire_frame"
    /\ frame_idx = <<0, 0>>
    /\ fault = NoFault
    /\ prev_camera_matrices # None
    /\ \E i \in 1..Len(instances) : instances[i].prev_rotation # Mat3Identity

\* The frame index n frames later
RECURSIVE FramesLater(_, _)
FramesLater(f, n) == IF n = 0 THEN f ELSE FramesLater(overflowing_add_1(f), n - 1)

\* The place in the sequence of the offset selected for frame f
SelectedEntry(f) == U32Mod(f, Len(supersample_offsets)) + 1

\* C18. The offset that prepare_render_graph has just selected for the
\* current frame is the entry of the sequence that is selected for the frame
\* sixteen frames later, the frame index wrapping from 2^32 - 1 to 0.
C18_JitterCycles ==
    (call.op = "prepare_render_graph" /\ render_mode = "Standard") =>
        /\ SelectedEntry(frame_idx) = SelectedEntry(FramesLater(frame_idx, 16))
        /\ current_supersample_offset
              = supersample_offsets[SelectedEntry(FramesLater(frame_idx, 16))]

\* The offset was selected for frame 2^32 - 3, thirteen frames after the
\* start: sixteen frames later is frame 13, beyond the wrap.
C18_Witness ==
    /\ call.op = "prepare_render_graph"
    /\ frame_idx = <<Half - 1, Half - 3>>
    /\ FramesLater(frame_idx, 16) = U32(13)
    /\ current_supersample_offset = supersample_offsets[14]
    /\ current_supersample_offset # supersample_offsets[13]

\* The first prepare_frame_constants of the scenario: frame 0, no camera
\* stored, the first instance the only one
FirstFrameOfScenario ==
    /\ call'.op = "prepare_frame_constants"
    /\ frame_idx = U32(0)
    /\ prev_camera_matrices = None
    /\ instance_handles = <<0>>

\* The removal of the first instance when the second exists, and what the
\* scenario expects of it: one instance is left, the second as it was, under
\* its handle, and at the position its add_instance gave it, which no step
\* in between has changed.
SecondInstanceSurvives ==
    /\ (call'.op = "remove_instance" /\ call'.args[1] = 0 /\ Live = {0, 1}) =>
          /\ fault' = NoFault
          /\ Len(instances') = 1
          /\ instance_handles' = <<1>>
          /\ Resolves(instance_handle_to_index', instances', 1)
          /\ Resolve(instance_handle_to_index', instances', 1)
                = Resolve(instance_handle_to_index, instances, 1)
    /\ call'.op = "add_instance" =>
          /\ Resolves(instance_handle_to_index', instances', call'.ret)
          /\ Resolve(instance_handle_to_index', instances', call'.ret).position
                = call'.args[2]
    /\ \A h \in Live \cap Live' :
          /\ Resolves(instance_handle_to_index', instances', h)
          /\ Resolve(instance_handle_to_index', instances', h).position
                = Resolve(instance_handle_to_index, instances, h).position

C20_TransformUpdateKeepsPrevious ==
    [][ /\ (call'.op = "set_instance_transform" /\ call'.args[1] \in Live) =>
              LET i == instance_handle_to_index[call'.args[1]] + 1
              IN  /\ fault' = NoFault
                  /\ Len(instances') = Len(instances)
                  /\ instances'[i].position = call'.args[2]
                  /\ instances'[i].rotation = from_quat(call'.args[3])
                  /\ instances'[i].prev_position = instances[i].prev_position
                  /\ instances'[i].prev_rotation = instances[i].prev_rotation
                  /\ instances'[i].mesh = instances[i].mesh
                  /\ instances'[i].dynamic_parameters = instances[i].dynamic_parameters
                  /\ \A j \in 1..Len(instances) : j # i => instances'[j] = instances[j]
                  /\ UNCHANGED <<instance_handles, instance_handle_to_index,
                                 next_instance_handle, frame_idx>>
        /\ \A h \in Live \cap Live' :
              LET old == Resolve(instance_handle_to_index, instances, h)
                  new == Resolve(instance_handle_to_index', instances', h)
              IN  IF call'.op = "retire_frame"
                  THEN /\ new.prev_position = old.position
                       /\ new.prev_rotation = old.rotation
                  ELSE /\ new.prev_position = old.prev_position
                       /\ new.prev_rotation = old.prev_rotation
      ]_vars

\* In a later frame, one of two instances was moved and turned away from
\* where the frame before had it.
C20_Witness ==
    /\ call.op = "set_instance_transform"
    /\ fault = NoFault
    /\ frame_idx # U32(0)
    /\ Len(instances) = 2
    /\ LET i == instance_handle_to_index[call.args[1]] + 1
       IN  /\ instances[i].prev_position # instances[i].position
           /\ instances[i].prev_rotation # instances[i].rotation
           /\ instances[i].prev_rotation # Mat3Identity

\* C21. Top-level rebuild snapshot: a prepare_top_level_acceleration that
\* returns records one pass more, holding one tuple per live instance in the
\* order of the instance table, each made of the bottom-level structure of
\* the instance's mesh, its current position, its current rotation and its
\* mesh index; no other call changes the passes recorded, so an add_instance,
\* a remove_instance or a set_instance_transform made before the pass runs
\* does not alter its list; the pass, when it runs, rebuilds the structure it
\* imported from the list it holds, with an instance count equal to the
\* length of that list.
C21_RebuildSnapshot ==
    [][ /\ (call'.op = "prepare_top_level_acceleration" /\ fault' = NoFault) =>
              /\ Len(rg') = Len(rg) + 1
              /\ SubSeq(rg', 1, Len(rg)) = rg
              /\ LET captured == rg'[Len(rg')].instances
                 IN  /\ Len(captured) = Len(instances)
                     /\ \A i \in 1..Len(instances) :
                           /\ captured[i].blas = mesh_blas[instances[i].mesh + 1]
                           /\ captured[i].position = instances[i].position
                           /\ captured[i].rotation = instances[i].rotation
                           /\ captured[i].mesh_index = instances[i].mesh
        /\ call'.op \notin {"prepare_top_level_acceleration", "rebuild tlas"} =>
              rg' = rg
        /\ call'.op = "rebuild tlas" =>
              /\ rg # <<>>
              /\ rg' = Tail(rg)
              /\ call'.ret = Len(Head(rg).instances)
              /\ (IF tlas = NoAccel THEN FALSE ELSE tlas[1].id = Head(rg).write) =>
                    tlas' = Some([id |-> tlas[1].id, instances |-> Head(rg).instances])
      ]_vars

\* A pass has rebuilt the current structure from a list of one instance at
\* the origin, although that instance was moved away after the pass was
\* recorded and a second instance was added.
C21_Witness ==
    /\ call.op = "rebuild tlas"
    /\ call.ret = 1
    /\ tlas # NoAccel
    /\ call.args[1] = tlas[1].id
    /\ Len(instances) = 2
    /\ tlas[1].instances[1].position = Vec3Zero
    /\ instances[1].position # Vec3Zero

\* What a bindless registration or an append to the shared buffers writes
Registered ==
    <<meshes, mesh_blas, mesh_buffer, vertex_buffer, vertex_buffer_written,
      bindless_descriptors, bindless_images, next_bindless_image_id>>

\* C22. Texture fan-out and fan-in of add_mesh: while a thread of the
\* parallel region has not returned, no step registers an image or appends
\* to the shared buffers; and the add_mesh that Parallel::run returned to,
\* unless it is aborted, has taken one handle per unique identity, in the
\* sorted order of the identities, has written at the handle of each
\* identity the view of the image loaded for that identity and kept that
\* image, and has uploaded materials whose texture slots hold the handle of
\* the identity each slot named: none of this depends on the order in which
\* the threads finished.
C22_TextureFanOutFanIn ==
    [][ /\ (IF in_parallel_region THEN ~all_joined(loads[1]) ELSE FALSE) =>
              Registered' = Registered
        /\ (in_parallel_region /\ ~in_parallel_region' /\ fault' # UndefinedWrite) =>
              LET mesh == loads[1].mesh
                  ids  == loads[1].unique_images
                  HandleOf(a) ==
                      next_bindless_image_id + (CHOOSE i \in 1..Len(ids) : ids[i] = a) - 1
              IN  /\ all_joined(loads[1])
                  /\ {ids[i] : i \in 1..Len(ids)} = Identities(mesh)
                  /\ \A i \in 1..(Len(ids) - 1) : ids[i] < ids[i + 1]
                  /\ next_bindless_image_id' = next_bindless_image_id + Len(ids)
                  /\ Len(bindless_images') = Len(bindless_images) + Len(ids)
                  /\ \A i \in 1..Len(ids) :
                        /\ bindless_descriptors'[HandleOf(ids[i])] = TextureView(ids[i])
                        /\ bindless_images'[Len(bindless_images) + i] =
                               load_gpu_image_asset(ids[i])
                  /\ Len(vertex_buffer') > Len(vertex_buffer) =>
                        LET uploaded == vertex_buffer'[Len(vertex_buffer')].materials
                        IN  /\ Len(uploaded) = Len(mesh.materials)
                            /\ \A k \in 1..Len(uploaded) :
                                  \A j \in 1..Len(uploaded[k].maps) :
                                      uploaded[k].maps[j] =
                                          HandleOf(mesh.maps[mesh.materials[k].maps[j] + 1])
      ]_vars

\* A mesh of three textures was registered after an image; its loads
\* finished last thread first, and its four texture slots hold the handles
\* 1, 2, 3 of the identities 3, 6, 9 as the slots named them.
C22_Witness ==
    /\ call.op = "add_mesh"
    /\ fault = NoFault
    /\ loads # NoLoads
    /\ loads[1].joined
    /\ loads[1].unique_images = <<3, 6, 9>>
    /\ loads[1].finished = <<3, 1, 2>>
    /\ next_bindless_image_id = 4
    /\ vertex_buffer[Len(vertex_buffer)].materials[1].maps = <<2, 3, 1, 3>>

\* The dynamic parameters of the instance a live handle resolves to
ParametersOf(map, insts, h) == Resolve(map, insts, h).dynamic_parameters

\* C23. The dynamic parameters prepare_frame_constants serializes are one
\* entry per live instance, entry i being the parameters of the instance
\* whose handle is instance_handles[i]; and these are the parameters the
\* calls made before have left: a write through
\* get_instance_dynamic_parameters_mut changes the parameters of its handle
\* and of no other, an add_instance gives its handle the default parameters
\* (emissive multiplier 1), and every other call, a remove_instance that
\* relocates an instance included, leaves the parameters of the handles that
\* stay alive as they were.
C23_DynamicParametersSerialized ==
    [][ /\ (call'.op = "prepare_frame_constants" /\ fault' = NoFault) =>
              LET pushed == call'.ret.instance_dynamic_parameters
              IN  /\ Len(pushed) = Cardinality(Live)
                  /\ Len(pushed) = Len(instance_handles)
                  /\ \A i \in 1..Len(pushed) :
                        /\ instance_handles[i] \in Live
                        /\ pushed[i] = ParametersOf(instance_handle_to_index, instances,
                                                    instance_handles[i])
        /\ \A h \in Live \cap Live' :
              IF call'.op = "get_instance_dynamic_parameters_mut" /\ call'.args[1] = h
              THEN ParametersOf(instance_handle_to_index', instances', h)
                       = [emissive_multiplier |-> call'.args[2]]
              ELSE ParametersOf(instance_handle_to_index', instances', h)
                       = ParametersOf(instance_handle_to_index, instances, h)
        /\ \A h \in Live' \ Live :
              ParametersOf(instance_handle_to_index', instances', h)
                  = [emissive_multiplier |-> 1]
      ]_vars

\* Three instances were added, the second one was given an emissive
\* multiplier of 2 and the first one was removed, which relocated the third:
\* the parameters serialized are those of the third, then of the second.
C23_Witness ==
    /\ call.op = "prepare_frame_constants"
    /\ fault = NoFault
    /\ instance_handles = <<2, 1>>
    /\ call.ret.instance_dynamic_parameters =
           <<[emissive_multiplier |-> 1], [emissive_multiplier |-> 2]>>

\* C24. Zero-instance policy: a prepare_top_level_acceleration called with a
\* structure and an empty instance table does not fail and does not skip: it
\* records the rebuild pass, which declares a write to the structure and
\* holds an empty instance list, returns the structure's handle and leaves
\* the structure in place; the pass, when it runs, issues the rebuild with an
\* instance count of 0, after which there still is a structure, holding no
\* instance if it is the one the pass imported.
C24_ZeroInstanceRebuild ==
    [][ /\ (call'.op = "prepare_top_level_acceleration"
               /\ tlas # NoAccel /\ instances = <<>>) =>
              /\ fault' = NoFault
              /\ rg' = Append(rg, [name      |-> "rebuild tlas",
                                   write     |-> tlas[1].id,
                                   instances |-> <<>>])
              /\ call'.ret = tlas[1].id
              /\ tlas' = tlas
        /\ (IF call'.op = "rebuild tlas" /\ rg # <<>>
            THEN Head(rg).instances = <<>>
            ELSE FALSE) =>
              /\ fault' = NoFault
              /\ call'.ret = 0
              /\ tlas' # NoAccel
              /\ tlas'[1].id = tlas[1].id
              /\ tlas[1].id = Head(rg).write => tlas'[1].instances = <<>>
      ]_vars

\* The structure was built over an instance table that was emptied by
\* remove_instance afterwards; the pass recorded then has run and rebuilt it
\* with no instance.
C24_Witness ==
    /\ call.op = "rebuild tlas"
    /\ call.ret = 0
    /\ fault = NoFault
    /\ next_instance_handle > 0
    /\ instances = <<>>
    /\ tlas # NoAccel
    /\ call.args[1] = tlas[1].id
    /\ tlas[1].instances = <<>>

====
